---- MODULE Spec2Model ----
(***************************************************************************)
(* Model of SSHConnectionManager (src/src/ssh-manager.ts): one shared      *)
(* manager instance used by several asynchronous callers.  JavaScript runs *)
(* each piece of code between two suspension points (await of a transport  *)
(* promise or of the backoff timer) without interleaving, so every action  *)
(* below is one such piece: it starts when a call is made or a transport   *)
(* promise / timer settles and runs to the next await or to the end of the *)
(* call.  An await of one of the manager's own async methods (connect,    *)
(* reconnect) is run inline with its caller: the suspension points are the *)
(* transport promises and the timer only.  The transport (node-ssh) is the *)
(* environment: each handshake and each command execution settles with an  *)
(* outcome chosen by \E.  Position "exec1" is the await of line 104,       *)
(* "exec2" the await of line 117.                                          *)
(***************************************************************************)
EXTENDS Integers, Sequences, FiniteSets, TLC

VARIABLES
    connected,          \* SSHConnectionManager.connected
    reconnectAttempts,  \* SSHConnectionManager.reconnectAttempts
    held,               \* the NodeSSH handle holds a transport resource
    pc,                 \* per caller: where its pending call is suspended
    op,                 \* per caller: the public method it called
    cmd,                \* per caller: the command passed to executeCommand
    log,                \* per caller: what the current call did so far
    outcome,            \* per caller: how the call ended
    entry,              \* per caller: the manager's fields when it called
    backoffs,           \* backoff sleeps begun since the last successful
                        \* handshake, as an observer of the calls counts them
    failed,             \* retry exhaustion was raised and connect() was not
                        \* called explicitly since (the FAILED state)
    reconnectFailures,  \* handshakes begun by reconnect() that failed since
                        \* the last successful handshake, as observed
    boot,               \* the environment, what the constructor made of it
                        \* and what connect() hands to ssh.connect
    adapter,            \* one invocation of the sshExecutor adapter
    marking             \* whether the calls in flight at a disconnect() are
                        \* marked (history, constant in every behaviour)

vars == <<connected, reconnectAttempts, held, pc, op, cmd, log, outcome,
          entry, backoffs, failed, reconnectFailures, boot, adapter, marking>>

----------------------------------------------------------------------------
(* The callers sharing the manager, and the values the environment can     *)
(* hand to it.                                                             *)

Callers == {"a", "b"}

Commands == {"uptime", "ls"}

\* result.code is a number or null: a code n is <<n>>, null is <<>>.
NULL == <<>>

\* Failure descriptions of the transport: one that the classifier matches
\* and one that differs from it by case only (the description used by the
\* repository's own connect test), which the classifier does not match.
FailureDescriptions == {"connection lost", "Connection failed"}

TransportErrors == {[isError |-> TRUE, message |-> m] : m \in FailureDescriptions}

\* What ssh.execCommand resolves with: stdout, stderr and a code that may
\* be absent.
TransportResults ==
    { [stdout |-> "test output", stderr |-> "", code |-> <<0>>],
      [stdout |-> "", stderr |-> "error message", code |-> <<1>>],
      [stdout |-> "output", stderr |-> "", code |-> NULL] }

----------------------------------------------------------------------------
(* Policy constants and pure helpers.                                      *)

maxReconnectAttempts == 5

baseBackoffMs == 1000

RECURSIVE pow(_, _)
pow(b, e) == IF e = 0 THEN 1 ELSE b * pow(b, e - 1)

\* String.prototype.includes
includes(s, sub) ==
    \E i \in 1..(Len(s) - Len(sub) + 1) : SubSeq(s, i, i + Len(sub) - 1) = sub

\* error instanceof Error ? error.message : String(error)
messageOf(error) == error.message

\* ssh-manager.ts:74
connectError(error) ==
    [isError |-> TRUE,
     message |-> "Failed to connect to SSH server: " \o messageOf(error)]

executeErrorWithoutCause(error) ==
    [isError |-> TRUE, message |-> "Failed to execute command"]

\* ssh-manager.ts:125
executeError(error) ==
    [isError |-> TRUE,
     message |-> "Failed to execute command: " \o messageOf(error)]

\* ssh-manager.ts:83
retryExhaustedError ==
    [isError |-> TRUE,
     message |-> "Failed to reconnect after "
                    \o ToString(maxReconnectAttempts) \o " attempts"]

isConnectionErrorAnyError(error) == error.isError

\* ssh-manager.ts:113
isConnectionError(error) ==
    error.isError /\ includes(error.message, "connection")

retriesExhaustedPastLimit(attempts) == attempts > maxReconnectAttempts

\* ssh-manager.ts:82
retriesExhausted(attempts) == attempts >= maxReconnectAttempts

backoffMsFromIncremented(attempts) == baseBackoffMs * pow(2, attempts)

\* ssh-manager.ts:87, evaluated after the increment
backoffMs(attempts) == baseBackoffMs * pow(2, attempts - 1)

commandResultAbsentIsFailure(result) ==
    [stdout |-> result.stdout,
     stderr |-> result.stderr,
     exitCode |-> IF result.code = NULL THEN 1 ELSE result.code[1]]

\* ssh-manager.ts:106-110 and 118-122
commandResult(result) ==
    [stdout |-> result.stdout,
     stderr |-> result.stderr,
     exitCode |-> IF result.code = NULL THEN 0 ELSE result.code[1]]

----------------------------------------------------------------------------
(* Construction and the connection configuration.  An environment variable *)
(* or an optional field is <<>> when absent and <<v>> when set to v.        *)

Absent == <<>>

\* JavaScript truthiness of an optional string.
truthy(x) == x # Absent /\ x[1] # ""

Digits == "0123456789"

isDigit(ch) == \E i \in 1..Len(Digits) : SubSeq(Digits, i, i) = ch

digitOf(ch) == (CHOOSE i \in 1..Len(Digits) : SubSeq(Digits, i, i) = ch) - 1

\* parseInt on a string that starts with a digit: the leading digits, base
\* ten.
RECURSIVE parseIntFrom(_, _, _)
parseIntFrom(str, i, acc) ==
    IF i > Len(str) \/ ~isDigit(SubSeq(str, i, i))
    THEN acc
    ELSE parseIntFrom(str, i + 1, acc * 10 + digitOf(SubSeq(str, i, i)))

parseInt(str) == parseIntFrom(str, 1, 0)

constructorErrorKeyOnly(env) ==
    IF ~truthy(env.SSH_HOST)
    THEN "SSH_HOST environment variable is required"
    ELSE IF ~truthy(env.SSH_USERNAME)
    THEN "SSH_USERNAME environment variable is required"
    ELSE IF ~truthy(env.SSH_PRIVATE_KEY_PATH)
    THEN "Either SSH_PRIVATE_KEY_PATH or SSH_PASSWORD environment variable is required"
    ELSE ""

\* constructor, lines 32-40: the message thrown, "" when nothing is thrown.
constructorError(env) ==
    IF ~truthy(env.SSH_HOST)
    THEN "SSH_HOST environment variable is required"
    ELSE IF ~truthy(env.SSH_USERNAME)
    THEN "SSH_USERNAME environment variable is required"
    ELSE IF ~truthy(env.SSH_PRIVATE_KEY_PATH) /\ ~truthy(env.SSH_PASSWORD)
    THEN "Either SSH_PRIVATE_KEY_PATH or SSH_PASSWORD environment variable is required"
    ELSE ""

\* constructor, lines 26-30 and 42-48, for an environment it accepts.
constructorConfig(env) ==
    [host |-> env.SSH_HOST[1],
     port |-> IF truthy(env.SSH_PORT) THEN parseInt(env.SSH_PORT[1]) ELSE 22,
     username |-> env.SSH_USERNAME[1],
     privateKeyPath |-> env.SSH_PRIVATE_KEY_PATH,
     password |-> env.SSH_PASSWORD]

connectionConfigPasswordFirst(config) ==
    [host |-> config.host,
     port |-> config.port,
     username |-> config.username,
     privateKeyPath |-> IF truthy(config.password) THEN Absent
                        ELSE IF truthy(config.privateKeyPath)
                             THEN config.privateKeyPath ELSE Absent,
     password |-> IF truthy(config.password) THEN config.password ELSE Absent]

\* connect(), lines 56-66: the object handed to ssh.connect; a property
\* that is not set on it is Absent.
connectionConfig(config) ==
    [host |-> config.host,
     port |-> config.port,
     username |-> config.username,
     privateKeyPath |-> IF truthy(config.privateKeyPath)
                        THEN config.privateKeyPath ELSE Absent,
     password |-> IF truthy(config.privateKeyPath) THEN Absent
                  ELSE IF truthy(config.password)
                       THEN config.password ELSE Absent]

\* The environment of the repository's tests.
TestEnv ==
    [SSH_HOST |-> <<"test-host">>, SSH_PORT |-> <<"22">>,
     SSH_USERNAME |-> <<"test-user">>,
     SSH_PRIVATE_KEY_PATH |-> <<"/path/to/key">>, SSH_PASSWORD |-> Absent]

\* Environments the process can be started in.
Envs ==
    [SSH_HOST : {Absent, <<"">>, <<"h">>},
     SSH_PORT : {Absent, <<"">>, <<"2222">>},
     SSH_USERNAME : {Absent, <<"">>, <<"u">>},
     SSH_PRIVATE_KEY_PATH : {Absent, <<"">>, <<"/k">>},
     SSH_PASSWORD : {Absent, <<"">>, <<"pw">>}]

\* Before `new SSHConnectionManager()`.
Unbooted(env) ==
    [status |-> "env", env |-> env, error |-> "", config |-> Absent, sent |-> Absent]

\* `new SSHConnectionManager()`, lines 22-49.
constructed(env) ==
    IF constructorError(env) # ""
    THEN [status |-> "rejected", env |-> env, error |-> constructorError(env),
          config |-> Absent, sent |-> Absent]
    ELSE [status |-> "constructed", env |-> env, error |-> "",
          config |-> <<constructorConfig(env)>>, sent |-> Absent]

----------------------------------------------------------------------------
(* The sshExecutor adapter of index.ts.                                    *)

sshExecutorAnyNonZero(out) ==
    IF out.kind = "error"
    THEN out
    ELSE IF out.value.exitCode # 0
         THEN [kind |-> "error", message |-> out.value.stderr, value |-> <<>>]
         ELSE [kind |-> "ok", message |-> "", value |-> out.value.stdout]

\* index.ts:311-317, applied to the way executeCommand ended.
sshExecutor(out) ==
    IF out.kind = "error"
    THEN out
    ELSE IF out.value.exitCode # 0 /\ out.value.stderr # ""
         THEN [kind |-> "error", message |-> out.value.stderr, value |-> <<>>]
         ELSE [kind |-> "ok", message |-> "", value |-> out.value.stdout]

----------------------------------------------------------------------------
(* Call bookkeeping.                                                       *)

NoResult == [stdout |-> "", stderr |-> "", code |-> NULL]

\* One thing a call did: ev names it, msg is the command or the failure
\* description, n the backoff delay, res what the transport resolved with.
Event(e, m, n) == [ev |-> e, msg |-> m, n |-> n, res |-> NoResult]

ExecOk(r) == [ev |-> "execOk", msg |-> "", n |-> 0, res |-> r]

Count(lg, e) == Cardinality({i \in DOMAIN lg : lg[i].ev = e})

NoEntry == [connected |-> FALSE, failed |-> FALSE, disconnected |-> FALSE]

\* The manager as the caller finds it.
Entry == [connected |-> connected, failed |-> failed, disconnected |-> FALSE]

\* A disconnect() by p has returned: every call that is still in flight is
\* marked as having started before it.
Disconnected(p) ==
    [q \in Callers |->
        IF q = p THEN Entry
        ELSE IF pc[q] \in {"idle", "done"} \/ ~marking THEN entry[q]
        ELSE [entry[q] EXCEPT !.disconnected = TRUE]]

NoOutcome == [kind |-> "none", message |-> "", value |-> <<>>]
Returned(v) == [kind |-> "ok", message |-> "", value |-> v]
Thrown(error) == [kind |-> "error", message |-> error.message, value |-> <<>>]

ManagerInit ==
    /\ connected = FALSE
    /\ reconnectAttempts = 0
    /\ held = FALSE
    /\ pc = [p \in Callers |-> "idle"]
    /\ op = [p \in Callers |-> "none"]
    /\ cmd = [p \in Callers |-> ""]
    /\ log = [p \in Callers |-> <<>>]
    /\ outcome = [p \in Callers |-> NoOutcome]
    /\ entry = [p \in Callers |-> NoEntry]
    /\ backoffs = 0
    /\ failed = FALSE
    /\ reconnectFailures = 0

NoAdapter == [stage |-> "none", input |-> NoOutcome, calls |-> 0, output |-> NoOutcome]

\* The manager right after construction in the tests' environment.
Init ==
    /\ ManagerInit
    /\ boot = constructed(TestEnv)
    /\ adapter = NoAdapter
    /\ marking = FALSE

\* What the observer counts when the call of p extends its log to lg.
Observe(p, lg) ==
    LET added == SubSeq(lg, Len(log[p]) + 1, Len(lg)) IN
    /\ backoffs' = IF Count(added, "connectOk") > 0
                   THEN 0
                   ELSE backoffs + Count(added, "sleep")
    /\ reconnectFailures' =
          IF Count(added, "connectOk") > 0
          THEN 0
          ELSE IF pc[p] = "reconnecting"
               THEN reconnectFailures + Count(added, "connectFail")
               ELSE reconnectFailures

\* The call of p ends: its promise settles with out.
Settle(p, lg, out) ==
    /\ pc' = [pc EXCEPT ![p] = "done"]
    /\ log' = [log EXCEPT ![p] = lg]
    /\ outcome' = [outcome EXCEPT ![p] = out]
    /\ Observe(p, lg)
    /\ UNCHANGED <<boot, adapter, marking>>

\* The call of p suspends at the await named at.
Suspend(p, lg, at) ==
    /\ pc' = [pc EXCEPT ![p] = at]
    /\ log' = [log EXCEPT ![p] = lg]
    /\ UNCHANGED outcome
    /\ Observe(p, lg)
    /\ UNCHANGED <<boot, adapter, marking>>

----------------------------------------------------------------------------
(* Pieces of the methods that other methods run inline.                    *)

\* connect(), lines 55-68: builds the configuration and calls ssh.connect.
connectCall(lg) == Append(lg, Event("connect", "", 0))

connectSucceededKeepsCount ==
    /\ connected' = TRUE
    /\ held' = TRUE
    /\ UNCHANGED reconnectAttempts

\* connect(), lines 69-70: the handshake succeeded.
connectSucceeded ==
    /\ connected' = TRUE
    /\ reconnectAttempts' = 0
    /\ held' = TRUE

\* reconnect(), lines 81-91, entered with the log lg: either throws the
\* exhaustion error or counts the attempt and suspends in the backoff sleep.
reconnect(p, lg) ==
    IF retriesExhausted(reconnectAttempts)
    THEN /\ Settle(p, lg \o <<Event("reconnect", "", 0),
                             Event("exhausted", "", 0)>>,
                   Thrown(retryExhaustedError))
         /\ failed' = TRUE
         /\ UNCHANGED reconnectAttempts
    ELSE /\ reconnectAttempts' = reconnectAttempts + 1
         /\ Suspend(p, lg \o <<Event("reconnect", "", 0),
                               Event("sleep", "", backoffMs(reconnectAttempts + 1))>>,
                    "backoff")
         /\ UNCHANGED failed

catchBlockKeepsBelief(p, lg, error, c) ==
    IF isConnectionError(error)
    THEN /\ connected' = c
         /\ reconnect(p, lg)
    ELSE /\ connected' = c
         /\ Settle(p, lg, Thrown(executeError(error)))
         /\ UNCHANGED <<reconnectAttempts, failed>>

\* executeCommand(), lines 111-126: the catch block, entered with the
\* caught error; c is the value of connected on entry.
catchBlock(p, lg, error, c) ==
    IF isConnectionError(error)
    THEN /\ connected' = FALSE
         /\ reconnect(p, lg)
    ELSE /\ connected' = c
         /\ Settle(p, lg, Thrown(executeError(error)))
         /\ UNCHANGED <<reconnectAttempts, failed>>

\* lines 104 and 117: ssh.execCommand(command)
execCall(p, lg) == Append(lg, Event("exec", cmd[p], 0))

----------------------------------------------------------------------------
(* executeCommand(command)                                                 *)

ExecuteCommandTerminal(p, c) ==
    /\ pc[p] = "idle"
    /\ op' = [op EXCEPT ![p] = "executeCommand"]
    /\ cmd' = [cmd EXCEPT ![p] = c]
    /\ entry' = [entry EXCEPT ![p] = Entry]
    /\ IF retriesExhausted(reconnectAttempts)
       THEN Settle(p, <<>>, Thrown(retryExhaustedError))
       ELSE IF ~connected
            THEN Suspend(p, connectCall(<<>>), "lazyConnect")
            ELSE Suspend(p, <<Event("exec", c, 0)>>, "exec1")
    /\ UNCHANGED <<connected, reconnectAttempts, held, failed>>

\* Lines 98-104 up to the first await: lazy connect or first issue.
ExecuteCommand(p, c) ==
    /\ pc[p] = "idle"
    /\ op' = [op EXCEPT ![p] = "executeCommand"]
    /\ cmd' = [cmd EXCEPT ![p] = c]
    /\ entry' = [entry EXCEPT ![p] = Entry]
    /\ IF ~connected
       THEN Suspend(p, connectCall(<<>>), "lazyConnect")
       ELSE Suspend(p, <<Event("exec", c, 0)>>, "exec1")
    /\ UNCHANGED <<connected, reconnectAttempts, held, failed>>

\* The lazy connect's handshake succeeded: lines 69-70, then line 104.
LazyConnectResolved(p) ==
    /\ pc[p] = "lazyConnect"
    /\ connectSucceeded
    /\ Suspend(p, execCall(p, Append(log[p], Event("connectOk", "", 0))), "exec1")
    /\ UNCHANGED <<op, cmd, failed, entry>>

\* The lazy connect's handshake failed: lines 73-74, caught at line 111.
LazyConnectRejected(p, e) ==
    /\ pc[p] = "lazyConnect"
    /\ catchBlock(p, Append(log[p], Event("connectFail", e.message, 0)),
                  connectError(e), FALSE)
    /\ UNCHANGED <<held, op, cmd, entry>>

FirstExecResolvedChecksCode(p, r) ==
    /\ pc[p] = "exec1"
    /\ Settle(p, Append(log[p], ExecOk(r)),
              IF commandResult(r).exitCode # 0
              THEN Thrown([isError |-> TRUE, message |-> r.stderr])
              ELSE Returned(commandResult(r)))
    /\ UNCHANGED <<connected, reconnectAttempts, held, op, cmd, failed, entry>>

\* The first execution completed: lines 106-110.
FirstExecResolved(p, r) ==
    /\ pc[p] = "exec1"
    /\ Settle(p, Append(log[p], ExecOk(r)), Returned(commandResult(r)))
    /\ UNCHANGED <<connected, reconnectAttempts, held, op, cmd, failed, entry>>

\* The first execution failed: caught at line 111.
FirstExecRejected(p, e) ==
    /\ pc[p] = "exec1"
    /\ catchBlock(p, Append(log[p], Event("execFail", e.message, 0)), e, connected)
    /\ UNCHANGED <<held, op, cmd, entry>>

BackoffElapsedMarksConnected(p) ==
    /\ pc[p] = "backoff"
    /\ connected' = TRUE
    /\ Suspend(p, connectCall(log[p]), "reconnecting")
    /\ UNCHANGED <<reconnectAttempts, held, op, cmd, failed, entry>>

\* The backoff timer fired: line 92 calls connect().
BackoffElapsed(p) ==
    /\ pc[p] = "backoff"
    /\ Suspend(p, connectCall(log[p]), "reconnecting")
    /\ UNCHANGED <<connected, reconnectAttempts, held, op, cmd, failed, entry>>

ReconnectResolvedNoRetry(p) ==
    /\ pc[p] = "reconnecting"
    /\ connectSucceeded
    /\ Settle(p, Append(log[p], Event("connectOk", "", 0)),
              Returned(commandResult(NoResult)))
    /\ UNCHANGED <<op, cmd, failed, entry>>

\* reconnect()'s handshake succeeded: lines 69-70, then the retry, line 117.
ReconnectResolved(p) ==
    /\ pc[p] = "reconnecting"
    /\ connectSucceeded
    /\ Suspend(p, execCall(p, Append(log[p], Event("connectOk", "", 0))), "exec2")
    /\ UNCHANGED <<op, cmd, failed, entry>>

ReconnectRejectedTriesAgain(p, e) ==
    /\ pc[p] = "reconnecting"
    /\ connected' = FALSE
    /\ reconnect(p, Append(log[p], Event("connectFail", e.message, 0)))
    /\ UNCHANGED <<held, op, cmd, entry>>

ReconnectRejectedWrapped(p, e) ==
    /\ pc[p] = "reconnecting"
    /\ connected' = FALSE
    /\ Settle(p, Append(log[p], Event("connectFail", e.message, 0)),
              Thrown(executeError(connectError(e))))
    /\ UNCHANGED <<reconnectAttempts, held, op, cmd, failed, entry>>

\* reconnect()'s handshake failed: lines 73-74; nothing catches the error
\* thrown inside the catch block, so executeCommand rejects with it.
ReconnectRejected(p, e) ==
    /\ pc[p] = "reconnecting"
    /\ connected' = FALSE
    /\ Settle(p, Append(log[p], Event("connectFail", e.message, 0)),
              Thrown(connectError(e)))
    /\ UNCHANGED <<reconnectAttempts, held, op, cmd, failed, entry>>

\* The re-issued execution completed: lines 118-122.
RetryExecResolved(p, r) ==
    /\ pc[p] = "exec2"
    /\ Settle(p, Append(log[p], ExecOk(r)), Returned(commandResult(r)))
    /\ UNCHANGED <<connected, reconnectAttempts, held, op, cmd, failed, entry>>

RetryExecRejectedRetries(p, e) ==
    /\ pc[p] = "exec2"
    /\ catchBlock(p, Append(log[p], Event("execFail", e.message, 0)), e, connected)
    /\ UNCHANGED <<held, op, cmd, entry>>

RetryExecRejectedWrapped(p, e) ==
    /\ pc[p] = "exec2"
    /\ Settle(p, Append(log[p], Event("execFail", e.message, 0)),
              Thrown(executeError(e)))
    /\ UNCHANGED <<connected, reconnectAttempts, held, op, cmd, failed, entry>>

\* The re-issued execution failed: line 117 is inside the catch block, so
\* the transport's error leaves executeCommand as it is.
RetryExecRejected(p, e) ==
    /\ pc[p] = "exec2"
    /\ Settle(p, Append(log[p], Event("execFail", e.message, 0)), Thrown(e))
    /\ UNCHANGED <<connected, reconnectAttempts, held, op, cmd, failed, entry>>

----------------------------------------------------------------------------
(* connect(), disconnect() called directly, and the end of a call.         *)

\* connect() called directly, lines 54-68 up to the await.
Connect(p) ==
    /\ pc[p] = "idle"
    /\ op' = [op EXCEPT ![p] = "connect"]
    /\ entry' = [entry EXCEPT ![p] = Entry]
    /\ Suspend(p, connectCall(<<>>), "connecting")
    /\ failed' = FALSE
    /\ UNCHANGED <<connected, reconnectAttempts, held, cmd>>

\* connect() called directly: the handshake succeeded, lines 69-71.
ConnectResolved(p) ==
    /\ pc[p] = "connecting"
    /\ connectSucceeded
    /\ Settle(p, Append(log[p], Event("connectOk", "", 0)), Returned(<<>>))
    /\ UNCHANGED <<op, cmd, failed, entry>>

ConnectRejectedKeepsBelief(p, e) ==
    /\ pc[p] = "connecting"
    /\ Settle(p, Append(log[p], Event("connectFail", e.message, 0)),
              Thrown(connectError(e)))
    /\ UNCHANGED <<connected, reconnectAttempts, held, op, cmd, failed, entry>>

\* connect() called directly: the handshake failed, lines 73-74.
ConnectRejected(p, e) ==
    /\ pc[p] = "connecting"
    /\ connected' = FALSE
    /\ Settle(p, Append(log[p], Event("connectFail", e.message, 0)),
              Thrown(connectError(e)))
    /\ UNCHANGED <<reconnectAttempts, held, op, cmd, failed, entry>>

DisconnectKeepsBelief(p) ==
    /\ pc[p] = "idle"
    /\ op' = [op EXCEPT ![p] = "disconnect"]
    /\ entry' = Disconnected(p)
    /\ IF connected
       THEN /\ held' = FALSE
            /\ Settle(p, <<Event("dispose", "", 0)>>, Returned(<<>>))
            /\ UNCHANGED connected
       ELSE /\ Settle(p, <<>>, Returned(<<>>))
            /\ UNCHANGED <<connected, held>>
    /\ UNCHANGED <<reconnectAttempts, cmd, failed>>

\* disconnect(), lines 139-145: no await, so the whole method is one step.
Disconnect(p) ==
    /\ pc[p] = "idle"
    /\ op' = [op EXCEPT ![p] = "disconnect"]
    /\ entry' = Disconnected(p)
    /\ IF connected
       THEN /\ held' = FALSE
            /\ connected' = FALSE
            /\ Settle(p, <<Event("dispose", "", 0)>>, Returned(<<>>))
       ELSE /\ Settle(p, <<>>, Returned(<<>>))
            /\ UNCHANGED <<connected, held>>
    /\ UNCHANGED <<reconnectAttempts, cmd, failed>>

IsConnectedAsksTransport(p) ==
    /\ pc[p] = "idle"
    /\ op' = [op EXCEPT ![p] = "isConnected"]
    /\ entry' = [entry EXCEPT ![p] = Entry]
    /\ Settle(p, <<>>, Returned(<<held>>))
    /\ UNCHANGED <<connected, reconnectAttempts, held, cmd, failed>>

\* isConnected(), lines 132-134.
IsConnected(p) ==
    /\ pc[p] = "idle"
    /\ op' = [op EXCEPT ![p] = "isConnected"]
    /\ entry' = [entry EXCEPT ![p] = Entry]
    /\ Settle(p, <<>>, Returned(<<connected>>))
    /\ UNCHANGED <<connected, reconnectAttempts, held, cmd, failed>>

\* The caller has consumed the settled promise and may call again.
Return(p) ==
    /\ pc[p] = "done"
    /\ pc' = [pc EXCEPT ![p] = "idle"]
    /\ op' = [op EXCEPT ![p] = "none"]
    /\ cmd' = [cmd EXCEPT ![p] = ""]
    /\ log' = [log EXCEPT ![p] = <<>>]
    /\ outcome' = [outcome EXCEPT ![p] = NoOutcome]
    /\ entry' = [entry EXCEPT ![p] = NoEntry]
    /\ UNCHANGED <<connected, reconnectAttempts, held, backoffs, failed,
                   reconnectFailures, boot, adapter, marking>>

Next ==
    \/ \E p \in Callers, c \in Commands : ExecuteCommand(p, c)
    \/ \E p \in Callers : LazyConnectResolved(p)
    \/ \E p \in Callers, e \in TransportErrors : LazyConnectRejected(p, e)
    \/ \E p \in Callers, r \in TransportResults : FirstExecResolved(p, r)
    \/ \E p \in Callers, e \in TransportErrors : FirstExecRejected(p, e)
    \/ \E p \in Callers : BackoffElapsed(p)
    \/ \E p \in Callers : ReconnectResolved(p)
    \/ \E p \in Callers, e \in TransportErrors : ReconnectRejected(p, e)
    \/ \E p \in Callers, r \in TransportResults : RetryExecResolved(p, r)
    \/ \E p \in Callers, e \in TransportErrors : RetryExecRejected(p, e)
    \/ \E p \in Callers : Connect(p)
    \/ \E p \in Callers : ConnectResolved(p)
    \/ \E p \in Callers, e \in TransportErrors : ConnectRejected(p, e)
    \/ \E p \in Callers : Disconnect(p)
    \/ \E p \in Callers : IsConnected(p)
    \/ \E p \in Callers : Return(p)

Spec == Init /\ [][Next]_vars

----------------------------------------------------------------------------
(* The manager when every transport call and every timer completes.  Which *)
(* command is run and what it prints has no part in whether a call ends,   *)
(* so one command and one result are enough here; both kinds of failure    *)
(* are kept.                                                               *)

LiveCommands == {"uptime"}

LiveResults == {[stdout |-> "test output", stderr |-> "", code |-> <<0>>]}

\* The transport call or the timer that the call of p is suspended on
\* completes: the promise resolves or rejects, the timer fires.
Completes(p) ==
    \/ LazyConnectResolved(p)
    \/ \E e \in TransportErrors : LazyConnectRejected(p, e)
    \/ \E r \in LiveResults : FirstExecResolved(p, r)
    \/ \E e \in TransportErrors : FirstExecRejected(p, e)
    \/ BackoffElapsed(p)
    \/ ReconnectResolved(p)
    \/ \E e \in TransportErrors : ReconnectRejected(p, e)
    \/ \E r \in LiveResults : RetryExecResolved(p, r)
    \/ \E e \in TransportErrors : RetryExecRejected(p, e)
    \/ ConnectResolved(p)
    \/ \E e \in TransportErrors : ConnectRejected(p, e)

LiveNext ==
    \/ \E p \in Callers, c \in LiveCommands : ExecuteCommand(p, c)
    \/ \E p \in Callers : LazyConnectResolved(p)
    \/ \E p \in Callers, e \in TransportErrors : LazyConnectRejected(p, e)
    \/ \E p \in Callers, r \in LiveResults : FirstExecResolved(p, r)
    \/ \E p \in Callers, e \in TransportErrors : FirstExecRejected(p, e)
    \/ \E p \in Callers : BackoffElapsed(p)
    \/ \E p \in Callers : ReconnectResolved(p)
    \/ \E p \in Callers, e \in TransportErrors : ReconnectRejected(p, e)
    \/ \E p \in Callers, r \in LiveResults : RetryExecResolved(p, r)
    \/ \E p \in Callers, e \in TransportErrors : RetryExecRejected(p, e)
    \/ \E p \in Callers : Connect(p)
    \/ \E p \in Callers : ConnectResolved(p)
    \/ \E p \in Callers, e \in TransportErrors : ConnectRejected(p, e)
    \/ \E p \in Callers : Disconnect(p)
    \/ \E p \in Callers : IsConnected(p)
    \/ \E p \in Callers : Return(p)

LiveSpec ==
    Init /\ [][LiveNext]_vars /\ \A p \in Callers : WF_vars(Completes(p))

----------------------------------------------------------------------------
(* The constructor, the connection configuration and the adapter as pure   *)
(* functions of their inputs: the environment and the way executeCommand   *)
(* ended are drawn in the initial state and the code is applied to them.   *)

managerVars == <<connected, reconnectAttempts, held, pc, op, cmd, log, outcome,
                 entry, backoffs, failed, reconnectFailures, marking>>

\* Ways an executeCommand call can end, as the adapter sees them.
AdapterInputs ==
    {Returned([stdout |-> so, stderr |-> se, exitCode |-> c]) :
        so \in {"", "test output"}, se \in {"", "error message"}, c \in {0, 1}}
    \cup {Thrown(executeError(e)) : e \in TransportErrors}
    \cup {Thrown(e) : e \in TransportErrors}
    \cup {Thrown(retryExhaustedError)}

UnitInit ==
    /\ ManagerInit
    /\ boot \in {Unbooted(env) : env \in Envs}
    /\ adapter \in {[stage |-> "called", input |-> i, calls |-> 0,
                      output |-> NoOutcome] : i \in AdapterInputs}
    /\ marking = FALSE

\* new SSHConnectionManager()
Construct ==
    /\ boot.status = "env"
    /\ boot' = constructed(boot.env)
    /\ UNCHANGED <<adapter, managerVars>>

\* connect(), lines 56-68: the configuration reaches ssh.connect.
ConnectAttempt ==
    /\ boot.status = "constructed"
    /\ boot.sent = Absent
    /\ boot' = [boot EXCEPT !.sent = <<connectionConfig(boot.config[1])>>]
    /\ UNCHANGED <<adapter, managerVars>>

\* sshExecutor(command): one executeCommand call, whose end is the input.
SshExecutor ==
    /\ adapter.stage = "called"
    /\ adapter' = [adapter EXCEPT !.stage = "settled",
                                  !.calls = adapter.calls + 1,
                                  !.output = sshExecutor(adapter.input)]
    /\ UNCHANGED <<boot, managerVars>>

UnitNext == Construct \/ ConnectAttempt \/ SshExecutor

UnitSpec == UnitInit /\ [][UnitNext]_vars

----------------------------------------------------------------------------
(* The same manager, with the calls in flight at a disconnect() marked.    *)

MarkedInit ==
    /\ ManagerInit
    /\ boot = constructed(TestEnv)
    /\ adapter = NoAdapter
    /\ marking = TRUE

MarkedSpec == MarkedInit /\ [][Next]_vars

----------------------------------------------------------------------------
(* main() of index.ts: caller "a" is main(), which constructs the manager  *)
(* and makes the initial connect(); caller "b" is the tool handlers, which *)
(* call executeCommand once the server is serving.                         *)

MainEnvs == {TestEnv, [TestEnv EXCEPT !.SSH_HOST = Absent]}

MainInit ==
    /\ ManagerInit
    /\ boot \in {Unbooted(env) : env \in MainEnvs}
    /\ adapter = NoAdapter
    /\ marking = FALSE

Serving == boot.status = "serving"

\* index.ts:296: await sshManager.connect()
MainConnect == boot.status = "constructed" /\ Connect("a")

MainServeAborts ==
    /\ boot.status = "constructed"
    /\ pc["a"] = "done"
    /\ boot' = [boot EXCEPT !.status = IF outcome["a"].kind = "error"
                                       THEN "aborted" ELSE "serving"]
    /\ UNCHANGED <<adapter, managerVars>>

\* index.ts:297-376: the catch logs the warning and falls through; the
\* tools and the signal handlers are registered and the server connects
\* its transport.
MainServe ==
    /\ boot.status = "constructed"
    /\ pc["a"] = "done"
    /\ boot' = [boot EXCEPT !.status = "serving"]
    /\ UNCHANGED <<adapter, managerVars>>

\* index.ts:361-371: SIGINT or SIGTERM: disconnect(), then process.exit(0).
Shutdown ==
    /\ Serving
    /\ boot' = [boot EXCEPT !.status = "exited"]
    /\ connected' = FALSE
    /\ held' = IF connected THEN FALSE ELSE held
    /\ UNCHANGED <<reconnectAttempts, pc, op, cmd, log, outcome, entry,
                   backoffs, failed, reconnectFailures, adapter, marking>>

MainNext ==
    \/ Construct
    \/ MainConnect
    \/ ConnectResolved("a")
    \/ \E e \in TransportErrors : ConnectRejected("a", e)
    \/ MainServe
    \/ Serving /\ \E c \in Commands : ExecuteCommand("b", c)
    \/ Serving /\ LazyConnectResolved("b")
    \/ Serving /\ \E e \in TransportErrors : LazyConnectRejected("b", e)
    \/ Serving /\ \E r \in TransportResults : FirstExecResolved("b", r)
    \/ Serving /\ \E e \in TransportErrors : FirstExecRejected("b", e)
    \/ Serving /\ BackoffElapsed("b")
    \/ Serving /\ ReconnectResolved("b")
    \/ Serving /\ \E e \in TransportErrors : ReconnectRejected("b", e)
    \/ Serving /\ \E r \in TransportResults : RetryExecResolved("b", r)
    \/ Serving /\ \E e \in TransportErrors : RetryExecRejected("b", e)
    \/ Serving /\ Return("b")
    \/ Shutdown

MainSpec == MainInit /\ [][MainNext]_vars

----------------------------------------------------------------------------
(* Vocabulary of the properties.                                           *)

IsExec(p) == op[p] = "executeCommand"

Ended(p) == pc[p] = "done"

Last(lg) == lg[Len(lg)]

\* What the step added to the log of p (nothing when the call returns).
Added(p) == SubSeq(log'[p], Len(log[p]) + 1, Len(log'[p]))

\* The call of p ends in this step.
Ends(p) == pc[p] # "done" /\ pc'[p] = "done"

\* The classification of section 7, on a failure description.
ConnectionClassified(m) == includes(m, "connection")

ConnectFailureOf(m) == "Failed to connect to SSH server: " \o m

RetryExhaustedMessage == "Failed to reconnect after 5 attempts"

\* The i-th event is the k-th issue of the command.
IsIssue(lg, i, k) == lg[i].ev = "exec" /\ Count(SubSeq(lg, 1, i), "exec") = k

\* The first issue of the command, at i, failed and the failure was
\* classified as a connection failure.
DropAt(lg, i) ==
    /\ i + 1 <= Len(lg)
    /\ IsIssue(lg, i, 1)
    /\ lg[i + 1].ev = "execFail"
    /\ ConnectionClassified(lg[i + 1].msg)

\* reconnect() was called after i and ended as one of evs.
ReconnectAfter(lg, i, evs) ==
    \E j, k \in DOMAIN lg :
        i < j /\ j < k /\ lg[j].ev = "reconnect" /\ lg[k].ev \in evs

\* The first issue hit a connection failure and the reconnect() that
\* followed succeeded.
DropThenReconnected(lg) ==
    \E i \in DOMAIN lg : DropAt(lg, i) /\ ReconnectAfter(lg, i, {"connectOk"})

\* The first issue hit a connection failure and the reconnect() that
\* followed failed.
DropThenReconnectFailed(lg) ==
    \E i \in DOMAIN lg :
        DropAt(lg, i) /\ ReconnectAfter(lg, i, {"connectFail", "exhausted"})

\* The value returned is what the transport resolved with.
ReturnsResult(out, res) ==
    /\ out.kind = "ok"
    /\ out.value.stdout = res.stdout
    /\ out.value.stderr = res.stderr
    /\ res.code \in {<<out.value.exitCode>>, <<>>}

----------------------------------------------------------------------------
\* C1 (P4 single retry): when the first execution of an executeCommand call
\* fails with a connection-classified failure and reconnect() succeeds, the
\* command of the call is issued exactly twice, and the call ends with the
\* outcome of the second execution: its result, or its failure as it is.
SingleRetry ==
    \A p \in Callers :
        (IsExec(p) /\ DropThenReconnected(log[p])) =>
            /\ Count(log[p], "exec") = 2
            /\ \A i \in DOMAIN log[p] : log[p][i].ev = "exec" => log[p][i].msg = cmd[p]
            /\ Ended(p) =>
                 \/ /\ Last(log[p]).ev = "execOk"
                    /\ ReturnsResult(outcome[p], Last(log[p]).res)
                 \/ /\ Last(log[p]).ev = "execFail"
                    /\ outcome[p].kind = "error"
                    /\ outcome[p].message = Last(log[p]).msg

SingleRetryWitness ==
    \E p \in Callers :
        /\ IsExec(p) /\ Ended(p)
        /\ DropThenReconnected(log[p])
        /\ outcome[p].kind = "ok"
        /\ Count(log[p], "exec") = 2

\* C2 (P5 no retry on non-connection failure): when an execution fails with
\* a failure that is not connection-classified, the call does nothing more
\* (no reconnect(), no sleep, no further issue): it ends in that step with
\* an error carrying the failure's description, and connected and
\* reconnectAttempts are as before the failure.  When this was the
\* execution of line 104 the command was issued once, reconnect() was never
\* called and nothing slept in the whole call.
NoRetryOnOtherFailure ==
    [][\A p \in Callers :
        (/\ Len(Added(p)) > 0
         /\ Added(p)[1].ev = "execFail"
         /\ ~ConnectionClassified(Added(p)[1].msg)) =>
            /\ Len(Added(p)) = 1
            /\ pc'[p] = "done"
            /\ outcome'[p].kind = "error"
            /\ includes(outcome'[p].message, Added(p)[1].msg)
            /\ connected' = connected
            /\ reconnectAttempts' = reconnectAttempts
            /\ pc[p] = "exec1" =>
                  /\ outcome'[p].message
                        = "Failed to execute command: " \o Added(p)[1].msg
                  /\ Count(log'[p], "exec") = 1
                  /\ Count(log'[p], "reconnect") = 0
                  /\ Count(log'[p], "sleep") = 0]_vars

NoRetryOnOtherFailureWitness ==
    \E p \in Callers :
        /\ IsExec(p) /\ Ended(p)
        /\ Last(log[p]).ev = "execFail"
        /\ ~ConnectionClassified(Last(log[p]).msg)
        /\ Count(log[p], "exec") = 1
        /\ outcome[p].kind = "error"

\* C3 (P6 lazy connect): a call that started with connected false has made
\* exactly one connect() when it first issues its command, and a call that
\* started with connected true has made none.
LazyConnectOnce ==
    \A p \in Callers :
        IsExec(p) =>
            \A i \in DOMAIN log[p] :
                IsIssue(log[p], i, 1) =>
                    Count(SubSeq(log[p], 1, i), "connect")
                        = (IF entry[p].connected THEN 0 ELSE 1)

\* C4: when the lazy connect() of a call fails, the call ends with exactly
\* the connect failure, having issued no command, called no reconnect() and
\* slept for no backoff.
LazyConnectFailureUnchanged ==
    \A p \in Callers :
        (/\ IsExec(p)
         /\ ~entry[p].connected
         /\ Len(log[p]) >= 2
         /\ log[p][2].ev = "connectFail") =>
            /\ Ended(p)
            /\ outcome[p].kind = "error"
            /\ outcome[p].message = ConnectFailureOf(log[p][2].msg)
            /\ Count(log[p], "exec") = 0
            /\ Count(log[p], "reconnect") = 0
            /\ Count(log[p], "sleep") = 0

Delays == <<1000, 2000, 4000, 8000, 16000>>

BackoffGrowth ==
    [][\A p \in Callers :
        /\ Count(Added(p), "reconnect") = 1 =>
              IF backoffs < 5
              THEN /\ reconnectAttempts' = backoffs + 1
                   /\ Last(Added(p)) = Event("sleep", "", Delays[backoffs + 1])
                   /\ Count(Added(p), "connect") = 0
                   /\ pc'[p] = "backoff"
              ELSE /\ reconnectAttempts = 5
                   /\ reconnectAttempts' = 5
                   /\ pc'[p] = "done"
                   /\ outcome'[p].kind = "error"
                   /\ outcome'[p].message = RetryExhaustedMessage
                   /\ Count(Added(p), "sleep") = 0
                   /\ Count(Added(p), "connect") = 0
        /\ (pc[p] = "backoff" /\ pc'[p] # "backoff") =>
              /\ pc'[p] = "reconnecting"
              /\ Added(p) = <<Event("connect", "", 0)>>
        /\ pc[p] = "reconnecting" =>
              /\ Count(Added(p), "connect") = 0
              /\ Count(Added(p), "sleep") = 0]_vars

BackoffGrowthWitness ==
    \E p \in Callers :
        /\ IsExec(p) /\ Ended(p)
        /\ Count(log[p], "exhausted") = 1
        /\ reconnectAttempts = 5

\* C7 (P3 counter reset): a step in which a handshake succeeds leaves
\* reconnectAttempts at 0; a step in which a handshake fails changes it only
\* by the reconnect() that step begins; so the counter is the number of
\* backoff sleeps begun since the last successful handshake.
CounterReset ==
    [][/\ \A p \in Callers :
            /\ Count(Added(p), "connectOk") > 0 => reconnectAttempts' = 0
            /\ Count(Added(p), "connectFail") > 0 =>
                  reconnectAttempts' = reconnectAttempts + Count(Added(p), "sleep")
       /\ reconnectAttempts' = backoffs']_vars

CounterResetWitness ==
    \E p \in Callers :
        /\ pc[p] = "exec2"
        /\ \E i \in DOMAIN log[p] : log[p][i] = Event("sleep", "", 4000)
        /\ reconnectAttempts = 0
        /\ connected

\* C8: when the first execution fails with a connection-classified failure
\* and reconnect() fails, the call ends with the reconnection failure (the
\* connect failure or the exhaustion error) and not the execution failure,
\* the command was issued once, and connected is false as the call ends.
ReconnectFailurePropagated ==
    [][\A p \in Callers :
        (/\ Ends(p) /\ op'[p] = "executeCommand"
         /\ DropThenReconnectFailed(log'[p])) =>
            /\ connected' = FALSE
            /\ Count(log'[p], "exec") = 1
            /\ outcome'[p].kind = "error"
            /\ outcome'[p].message =
                  (IF Last(log'[p]).ev = "exhausted"
                   THEN RetryExhaustedMessage
                   ELSE ConnectFailureOf(Last(log'[p]).msg))]_vars

ReconnectFailurePropagatedWitness ==
    \E p \in Callers :
        /\ IsExec(p) /\ Ended(p)
        /\ DropThenReconnectFailed(log[p])
        /\ Last(log[p]).ev = "connectFail"
        /\ outcome[p].message = ConnectFailureOf(Last(log[p]).msg)

\* C9: every call issues its command at most twice and calls reconnect() at
\* most once, and a second issue comes only after a handshake that succeeded
\* after the first issue failed.
SingleFreshRetry ==
    \A p \in Callers :
        IsExec(p) =>
            /\ Count(log[p], "exec") <= 2
            /\ Count(log[p], "reconnect") <= 1
            /\ \A i \in DOMAIN log[p] :
                  IsIssue(log[p], i, 2) =>
                      \E j, k \in 1..(i - 1) :
                          /\ k < j
                          /\ log[p][k].ev = "execFail"
                          /\ log[p][j].ev = "connectOk"

SingleFreshRetryWitness ==
    \E p \in Callers :
        /\ IsExec(p)
        /\ pc[p] = "exec2"
        /\ Count(log[p], "exec") = 2

\* C10: when the last execution attempt of a call (first or re-issued) fails
\* with a connection-classified failure and the call ends in failure,
\* connected is false as the call ends.
MarkedDisconnectedOnFailure ==
    [][\A p \in Callers :
        (/\ Ends(p) /\ op'[p] = "executeCommand"
         /\ outcome'[p].kind = "error"
         /\ \E i \in DOMAIN log'[p] :
               /\ log'[p][i].ev = "execFail"
               /\ ConnectionClassified(log'[p][i].msg)
               /\ \A j \in (i + 1)..Len(log'[p]) : log'[p][j].ev # "exec") =>
            connected' = FALSE]_vars

\* C11: when disconnect() returns, the transport resource acquired by an
\* earlier successful handshake has been disposed, also when connected was
\* already false.
DisconnectReleases ==
    [][\A p \in Callers :
        (Ends(p) /\ op'[p] = "disconnect") => ~held']_vars

\* C12 (P1 idempotent disconnect): disconnect() called while connected is
\* false returns normally, disposes nothing and leaves connected false and
\* reconnectAttempts and the transport as they were; called while connected
\* is true it disposes once and leaves connected false; so a second
\* disconnect() changes nothing.
IdempotentDisconnect ==
    [][\A p \in Callers :
        (Ends(p) /\ op'[p] = "disconnect") =>
            /\ outcome'[p].kind = "ok"
            /\ connected' = FALSE
            /\ reconnectAttempts' = reconnectAttempts
            /\ IF connected
               THEN Count(log'[p], "dispose") = 1 /\ ~held'
               ELSE Count(log'[p], "dispose") = 0 /\ held' = held]_vars

IdempotentDisconnectWitness ==
    \E p, q \in Callers :
        /\ op[p] = "disconnect" /\ Ended(p) /\ entry[p].connected
        /\ Count(log[p], "dispose") = 1
        /\ op[q] = "disconnect" /\ Ended(q) /\ ~entry[q].connected
        /\ log[q] = <<>>
        /\ outcome[q].kind = "ok"
        /\ ~connected

\* C13: at most one transport connection attempt, from connect() or from
\* reconnect(), is in flight at any time.
ConnectPositions == {"lazyConnect", "reconnecting", "connecting"}

SingleConnectInFlight ==
    Cardinality({p \in Callers : pc[p] \in ConnectPositions}) <= 1

\* C14: the retry-exhausted error is raised only when 5 handshakes begun by
\* reconnect() have failed since the last successful handshake.
ExhaustionMeansFiveFailures ==
    [][\A p \in Callers :
        Count(Added(p), "exhausted") = 1 => reconnectFailures = 5]_vars

\* C15: a connect() call whose handshake fails sets connected to false and
\* fails with "Failed to connect to SSH server: " followed by the cause's
\* description; a connect() call makes one transport connection attempt and
\* never sleeps or retries; and in every caller of connect() a failed
\* handshake leaves connected false.
ConnectFailure ==
    [][\A p \in Callers :
        /\ op'[p] = "connect" =>
              /\ Count(log'[p], "connect") = 1
              /\ Count(log'[p], "sleep") = 0
              /\ Count(log'[p], "reconnect") = 0
        /\ (pc[p] = "connecting" /\ Count(Added(p), "connectFail") = 1) =>
              /\ pc'[p] = "done"
              /\ outcome'[p].kind = "error"
              /\ outcome'[p].message = ConnectFailureOf(Last(log'[p]).msg)
        /\ Count(Added(p), "connectFail") = 1 => connected' = FALSE]_vars

ConnectFailureWitness ==
    \E p \in Callers :
        /\ op[p] = "connect" /\ Ended(p)
        /\ entry[p].connected
        /\ log[p] = <<Event("connect", "", 0), Event("connectFail", "Connection failed", 0)>>
        /\ outcome[p].message = "Failed to connect to SSH server: Connection failed"

\* C16: connected changes from false to true only in a step in which a
\* handshake begun by connect() completes successfully.
ConnectedOnlyByHandshake ==
    [][(~connected /\ connected') =>
          \E p \in Callers :
              /\ pc[p] \in ConnectPositions
              /\ Count(Added(p), "connectOk") = 1
              /\ Added(p)[1].ev = "connectOk"]_vars

ConnectedOnlyByHandshakeWitness ==
    /\ connected
    /\ \E p \in Callers :
          /\ op[p] = "connect" /\ Ended(p)
          /\ ~entry[p].connected
          /\ Last(log[p]).ev = "connectOk"

\* C17: when the command re-issued at line 117 fails, the call ends in that
\* step with exactly that failure, whatever its classification: nothing is
\* added after it (no reconnect(), no sleep, no third issue).
RetryFailureFinal ==
    [][\A p \in Callers :
        (pc[p] = "exec2" /\ Len(Added(p)) > 0 /\ Added(p)[1].ev = "execFail") =>
            /\ Len(Added(p)) = 1
            /\ pc'[p] = "done"
            /\ outcome'[p].kind = "error"
            /\ outcome'[p].message = Added(p)[1].msg
            /\ Count(log'[p], "exec") <= 2
            /\ Count(log'[p], "reconnect") = 1
            /\ Count(log'[p], "sleep") = 1
            /\ reconnectAttempts' = reconnectAttempts]_vars

RetryFailureFinalWitness ==
    \E p \in Callers :
        /\ IsExec(p) /\ Ended(p)
        /\ Count(log[p], "exec") = 2
        /\ Last(log[p]).ev = "execFail"
        /\ ConnectionClassified(Last(log[p]).msg)
        /\ outcome[p].message = "connection lost"

\* C18: when an execution completes with an exit code, zero or not, the
\* call ends in that step returning the transport's stdout, stderr and code
\* as they are, with nothing added (no reconnect(), no retry) and connected
\* and reconnectAttempts as before.
ExitCodeIsData ==
    [][\A p \in Callers :
        (/\ Len(Added(p)) > 0
         /\ Added(p)[1].ev = "execOk"
         /\ Added(p)[1].res.code # NULL) =>
            /\ Len(Added(p)) = 1
            /\ pc'[p] = "done"
            /\ outcome'[p].kind = "ok"
            /\ outcome'[p].value.stdout = Added(p)[1].res.stdout
            /\ outcome'[p].value.stderr = Added(p)[1].res.stderr
            /\ <<outcome'[p].value.exitCode>> = Added(p)[1].res.code
            /\ connected' = connected
            /\ reconnectAttempts' = reconnectAttempts]_vars

ExitCodeIsDataWitness ==
    \E p \in Callers :
        /\ IsExec(p) /\ Ended(p)
        /\ outcome[p] = Returned([stdout |-> "", stderr |-> "error message",
                                  exitCode |-> 1])
        /\ Count(log[p], "exec") = 1
        /\ Count(log[p], "reconnect") = 0

\* C19: a call that ends with a result has exitCode 0 when the transport
\* reported no code and the reported code otherwise, for the execution of
\* line 104 and for the one of line 117.
ExitCodeDefault ==
    \A p \in Callers :
        (IsExec(p) /\ Ended(p) /\ Last(log[p]).ev = "execOk") =>
            /\ outcome[p].kind = "ok"
            /\ Last(log[p]).res.code = <<>> => outcome[p].value.exitCode = 0
            /\ Last(log[p]).res.code = <<0>> => outcome[p].value.exitCode = 0
            /\ Last(log[p]).res.code = <<1>> => outcome[p].value.exitCode = 1

ExitCodeDefaultWitness ==
    \E p \in Callers :
        /\ IsExec(p) /\ Ended(p)
        /\ Count(log[p], "exec") = 2
        /\ Last(log[p]).ev = "execOk"
        /\ Last(log[p]).res.code = NULL
        /\ outcome[p].value.exitCode = 0

\* C20: a connect() or executeCommand call that ends with success ended on
\* a transport step that succeeded, and one that ends with a failure other
\* than retry exhaustion ended on a transport step that failed and carries
\* that step's failure description in its message.
NothingSwallowed ==
    \A p \in Callers :
        (Ended(p) /\ op[p] \in {"executeCommand", "connect"}) =>
            /\ outcome[p].kind \in {"ok", "error"}
            /\ outcome[p].kind = "ok" =>
                  Last(log[p]).ev = (IF IsExec(p) THEN "execOk" ELSE "connectOk")
            /\ (outcome[p].kind = "error" /\ Last(log[p]).ev # "exhausted") =>
                  /\ Last(log[p]).ev \in {"execFail", "connectFail"}
                  /\ includes(outcome[p].message, Last(log[p]).msg)

NothingSwallowedWitness ==
    \E p \in Callers :
        /\ IsExec(p) /\ Ended(p)
        /\ Last(log[p]).ev = "connectFail"
        /\ outcome[p].message =
              "Failed to execute command: Failed to connect to SSH server: Connection failed"

----------------------------------------------------------------------------
(* Properties of construction, configuration and the adapter (UnitSpec).   *)

Missing(x) == x = Absent

MissingOrEmpty(x) == x = Absent \/ x = <<"">>

Booted == boot.status \in {"constructed", "rejected"}

\* C21 as stated: construction fails exactly when the host is missing or
\* empty, or the username is missing or empty, or the key path and the
\* password are both missing.
ConstructionValidation ==
    Booted =>
        (boot.status = "rejected" <=>
            \/ MissingOrEmpty(boot.env.SSH_HOST)
            \/ MissingOrEmpty(boot.env.SSH_USERNAME)
            \/ Missing(boot.env.SSH_PRIVATE_KEY_PATH) /\ Missing(boot.env.SSH_PASSWORD))

\* C21 as amended: construction fails, before anything is handed to the
\* transport, exactly when the host is missing or empty, or the username is
\* missing or empty, or the key path and the password are each missing or
\* empty; so it succeeds with a key path only, a password only, and both.
ConstructionValidationOrEmpty ==
    Booted =>
        /\ boot.status = "rejected" <=>
              \/ MissingOrEmpty(boot.env.SSH_HOST)
              \/ MissingOrEmpty(boot.env.SSH_USERNAME)
              \/ /\ MissingOrEmpty(boot.env.SSH_PRIVATE_KEY_PATH)
                 /\ MissingOrEmpty(boot.env.SSH_PASSWORD)
        /\ boot.status = "rejected" =>
              boot.error # "" /\ boot.config = Absent /\ boot.sent = Absent

ConstructionValidationOrEmptyWitness ==
    /\ boot.status = "constructed"
    /\ boot.env.SSH_PRIVATE_KEY_PATH = Absent
    /\ boot.env.SSH_PASSWORD = <<"pw">>

\* C22: what connect() hands to ssh.connect carries exactly one credential,
\* the key path when one is configured (also next to a password) and the
\* password otherwise, with the configured host and username and the
\* configured port, 22 when none is given.
CredentialSelection ==
    boot.sent # Absent =>
        LET c == boot.sent[1] IN
        /\ (c.privateKeyPath = Absent) # (c.password = Absent)
        /\ ~MissingOrEmpty(boot.env.SSH_PRIVATE_KEY_PATH) =>
              c.privateKeyPath = boot.env.SSH_PRIVATE_KEY_PATH
        /\ MissingOrEmpty(boot.env.SSH_PRIVATE_KEY_PATH) =>
              c.password = boot.env.SSH_PASSWORD
        /\ <<c.host>> = boot.env.SSH_HOST
        /\ <<c.username>> = boot.env.SSH_USERNAME
        /\ c.port = (IF boot.env.SSH_PORT = <<"2222">> THEN 2222 ELSE 22)

CredentialSelectionWitness ==
    /\ boot.sent # Absent
    /\ boot.env.SSH_PRIVATE_KEY_PATH = <<"/k">>
    /\ boot.env.SSH_PASSWORD = <<"pw">>
    /\ boot.sent[1].privateKeyPath = <<"/k">>
    /\ boot.sent[1].password = Absent
    /\ boot.sent[1].port = 2222

\* C28: the adapter calls executeCommand once; it fails with the result's
\* stderr exactly when the exit code is not 0 and stderr is not empty,
\* returns stdout for every other result, and lets a failure of
\* executeCommand through as it is.
AdapterContract ==
    adapter.stage = "settled" =>
        /\ adapter.calls = 1
        /\ adapter.input.kind = "error" => adapter.output = adapter.input
        /\ adapter.input.kind = "ok" =>
              IF adapter.input.value.exitCode # 0 /\ adapter.input.value.stderr # ""
              THEN /\ adapter.output.kind = "error"
                   /\ adapter.output.message = adapter.input.value.stderr
              ELSE /\ adapter.output.kind = "ok"
                   /\ adapter.output.value = adapter.input.value.stdout

AdapterContractWitness ==
    /\ adapter.stage = "settled"
    /\ adapter.input.kind = "ok"
    /\ adapter.input.value.exitCode = 1
    /\ adapter.input.value.stderr = ""
    /\ adapter.output.kind = "ok"

----------------------------------------------------------------------------
(* Properties of the manager's state under interleaved calls (Spec).       *)

\* C23: isConnected() returns the current value of connected, changes
\* neither connected nor reconnectAttempts, and triggers no transport
\* connect, execution or dispose, whatever the other calls are doing.
IsConnectedPureRead ==
    [][\A p \in Callers :
        (op[p] = "none" /\ op'[p] = "isConnected") =>
            /\ outcome'[p] = Returned(<<connected>>)
            /\ connected' = connected
            /\ reconnectAttempts' = reconnectAttempts
            /\ held' = held
            /\ log' = log
            /\ \A q \in Callers \ {p} : pc'[q] = pc[q]]_vars

IsConnectedPureReadWitness ==
    \E p \in Callers :
        /\ op[p] = "isConnected"
        /\ outcome[p] = Returned(<<FALSE>>)
        /\ held
        /\ \E q \in Callers : pc[q] = "backoff"

\* C25: in every reachable state, connected = true implies
\* reconnectAttempts = 0.
ConnectedMeansCounterZero == connected => reconnectAttempts = 0

ConnectedMeansCounterZeroWitness ==
    /\ connected
    /\ reconnectAttempts = 0
    /\ \E p \in Callers :
          /\ Count(log[p], "reconnect") = 1
          /\ Count(log[p], "connectOk") = 1
          /\ entry[p].failed

\* C26: in every reachable state 0 <= reconnectAttempts <= 5, also with
\* calls interleaved at their awaits, and no backoff sleep longer than
\* 16000 ms is scheduled.
CounterBounded ==
    /\ reconnectAttempts \in 0..maxReconnectAttempts
    /\ \A p \in Callers : \A i \in 1..Len(log[p]) :
          log[p][i].ev = "sleep" => log[p][i].n <= 16000

CounterBoundedWitness ==
    /\ reconnectAttempts = maxReconnectAttempts
    /\ \A p \in Callers :
          /\ Count(log[p], "sleep") = 1
          /\ pc[p] \in {"backoff", "reconnecting"}
    /\ \E p \in Callers : \E i \in 1..Len(log[p]) :
          log[p][i].ev = "sleep" /\ log[p][i].n = 16000

\* C27: a call that was already in flight when disconnect() returned does
\* not set connected back to true.
DisconnectNotUndone ==
    [][\A p \in Callers :
        (~connected /\ connected' /\ Count(Added(p), "connectOk") = 1) =>
            ~entry[p].disconnected]_vars

----------------------------------------------------------------------------
(* Startup (MainSpec).                                                     *)

StartupFailed == outcome["a"].kind = "error"

\* C29: when the connect() of main() fails, main() does not abort: it goes
\* on to serve with connected = false, and an executeCommand issued while
\* connected is false attempts connect() before it runs its command.
StartupTolerant ==
    [][/\ (boot.status = "constructed" /\ boot'.status # "constructed") =>
             /\ boot'.status = "serving"
             /\ StartupFailed => ~connected' /\ pc'["b"] = "idle"
       /\ (Serving /\ ~connected /\ op["b"] = "none" /\ IsExec("b")') =>
             /\ pc'["b"] = "lazyConnect"
             /\ log'["b"] = <<Event("connect", "", 0)>>
       /\ (pc["b"] = "lazyConnect" /\ Count(Added("b"), "exec") > 0) =>
             Added("b")[1].ev = "connectOk"]_vars

StartupTolerantWitness ==
    /\ Serving
    /\ StartupFailed
    /\ pc["b"] = "exec1"
    /\ backoffs = 0
    /\ log["b"] = <<Event("connect", "", 0), Event("connectOk", "", 0),
                    Event("exec", "uptime", 0)>>

----------------------------------------------------------------------------
(* Termination (LiveSpec).                                                 *)

\* C24: when every transport connect and execution call completes, every
\* executeCommand call ends, returning a result or failing, after at most
\* one backoff sleep of at most 16000 ms, at most one reconnect and at most
\* two issues of the command.
ExecuteCommandTerminates ==
    /\ [](\A p \in Callers :
            IsExec(p) =>
                /\ Count(log[p], "sleep") <= 1
                /\ Count(log[p], "reconnect") <= 1
                /\ Count(log[p], "exec") <= 2
                /\ Count(log[p], "connect") <= 2
                /\ \A i \in DOMAIN log[p] :
                      log[p][i].ev = "sleep" => log[p][i].n <= 16000)
    /\ \A p \in Callers :
          (IsExec(p) /\ pc[p] # "done") ~>
              (pc[p] = "done" /\ outcome[p].kind \in {"ok", "error"})

ExecuteCommandTerminatesWitness ==
    \E p \in Callers :
        /\ IsExec(p)
        /\ pc[p] = "done"
        /\ outcome[p].kind = "ok"
        /\ Count(log[p], "exec") = 2
        /\ \E i \in DOMAIN log[p] : log[p][i] = Event("sleep", "", 16000)

====
